---- MODULE Spec2Model ----
(***************************************************************************)
(* i18n-tiny: locale routing middleware (Astro middleware and Next.js      *)
(* proxy), Accept-Language negotiation and the path helpers they use.      *)
(*                                                                         *)
(* JavaScript strings are modelled as sequences of one-character strings,  *)
(* so that startsWith, slice, split and template literals are computed     *)
(* character by character as the code computes them.                       *)
(***************************************************************************)
EXTENDS Integers, Sequences, FiniteSets, TLC

VARIABLES
    adapter,     \* which handler this deployment runs: "astro" or "next"
    config,      \* the configuration object passed to create()
    request,     \* pathname and accept-language of the latest invocation
    locals,      \* context.locals of the request being served (Astro)
    response,    \* what the latest invocation returned
    negotiated,  \* whether the latest invocation called detectLocale
    rewrites,    \* how often the handler ran again after a rewrite
    inflight,    \* the contexts of the requests served concurrently
    call         \* a call of one of the exported functions: arguments, result

vars ==
    <<adapter, config, request, locals, response, negotiated, rewrites, inflight,
      call>>

(***************************************************************************)
(* Bounds of the model.                                                    *)
(***************************************************************************)
MaxPathLen == 5

MaxRewrites == 2

MaxInflight == 2

MaxEntries == 3

MaxSegments == 2

MaxKeySegments == 2

(***************************************************************************)
(* JavaScript values.                                                      *)
(***************************************************************************)
Undefined == <<"undefined">>
Null == <<"null">>

\* ToBoolean of a string-or-missing value: undefined, null and "" are falsy.
Truthy(v) == v # Undefined /\ v # Null /\ v # <<>>

\* a ?? b
Nullish(a, b) == IF a = "undefined" THEN b ELSE a

\* a || b
OrElse(a, b) == IF Truthy(a) THEN a ELSE b

StartsWith(s, prefix) ==
    /\ Len(s) >= Len(prefix)
    /\ SubSeq(s, 1, Len(prefix)) = prefix

\* s.slice(start), start counted from 0
Slice(s, start) == SubSeq(s, start + 1, Len(s))

\* String.prototype.toLowerCase on the letters A-Z
UpperToLower ==
    [A |-> "a", B |-> "b", C |-> "c", D |-> "d", E |-> "e", F |-> "f",
     G |-> "g", H |-> "h", I |-> "i", J |-> "j", K |-> "k", L |-> "l",
     M |-> "m", N |-> "n", O |-> "o", P |-> "p", Q |-> "q", R |-> "r",
     S |-> "s", T |-> "t", U |-> "u", V |-> "v", W |-> "w", X |-> "x",
     Y |-> "y", Z |-> "z"]

ToLowerChar(c) == IF c \in DOMAIN UpperToLower THEN UpperToLower[c] ELSE c

ToLowerCase(s) == [i \in 1..Len(s) |-> ToLowerChar(s[i])]

\* index (from 1) of the first occurrence of sep in s, 0 when there is none
IndexOf(s, sep) ==
    LET hits == {i \in 1..(Len(s) - Len(sep) + 1) :
                    SubSeq(s, i, i + Len(sep) - 1) = sep}
    IN IF hits = {} THEN 0 ELSE CHOOSE i \in hits : \A j \in hits : i <= j

\* s.split(sep) for a non-empty separator
RECURSIVE Split(_, _)
Split(s, sep) ==
    LET i == IndexOf(s, sep)
    IN IF i = 0
       THEN <<s>>
       ELSE <<SubSeq(s, 1, i - 1)>> \o Split(Slice(s, i - 1 + Len(sep)), sep)

\* s.trim(), white space being the blank
Trim(s) ==
    LET ink == {i \in 1..Len(s) : s[i] # " "}
    IN IF ink = {}
       THEN <<>>
       ELSE SubSeq(s, CHOOSE i \in ink : \A j \in ink : i <= j,
                      CHOOSE i \in ink : \A j \in ink : i >= j)

Includes(list, x) == \E i \in 1..Len(list) : list[i] = x

(***************************************************************************)
(* parseFloat on decimal literals: optional sign, digits, optional         *)
(* fraction. Numbers are kept in thousandths; NaN is a value of its own.   *)
(* Exponents and "Infinity" are outside the alphabet of the headers used.  *)
(***************************************************************************)
Digits == <<"0", "1", "2", "3", "4", "5", "6", "7", "8", "9">>

IsDigit(c) == \E i \in 1..10 : Digits[i] = c

DigitValue(c) == (CHOOSE i \in 1..10 : Digits[i] = c) - 1

\* number of leading digit characters of s
DigitRun(s) ==
    LET stops == {i \in 1..Len(s) : ~IsDigit(s[i])}
    IN IF stops = {} THEN Len(s)
       ELSE (CHOOSE i \in stops : \A j \in stops : i <= j) - 1

RECURSIVE DigitsValue(_)
DigitsValue(ds) ==
    IF ds = <<>> THEN 0
    ELSE 10 * DigitsValue(SubSeq(ds, 1, Len(ds) - 1)) + DigitValue(ds[Len(ds)])

FractionThousandths(fd) ==
    LET d(i) == IF i <= Len(fd) THEN DigitValue(fd[i]) ELSE 0
    IN 100 * d(1) + 10 * d(2) + d(3)

NaN == [nan |-> TRUE, thousandths |-> 0]

Number(n) == [nan |-> FALSE, thousandths |-> n]

\* the digits before the dot and the digits after it
Decimal(intDigits, fracDigits) ==
    IF intDigits = <<>> /\ fracDigits = <<>>
    THEN NaN
    ELSE Number(1000 * DigitsValue(intDigits) + FractionThousandths(fracDigits))

\* what follows the integer digits: a dot and digits, or anything else
FractionDigits(rest) ==
    IF rest # <<>> /\ rest[1] = "."
    THEN SubSeq(rest, 2, 1 + DigitRun(Slice(rest, 1)))
    ELSE <<>>

ParseUnsigned(body, intLen) ==
    Decimal(SubSeq(body, 1, intLen), FractionDigits(Slice(body, intLen)))

Negate(x) == IF x.nan THEN x ELSE Number(0 - x.thousandths)

ParseSigned(t) ==
    IF t # <<>> /\ t[1] = "-"
    THEN Negate(ParseUnsigned(Slice(t, 1), DigitRun(Slice(t, 1))))
    ELSE IF t # <<>> /\ t[1] = "+"
    THEN ParseUnsigned(Slice(t, 1), DigitRun(Slice(t, 1)))
    ELSE ParseUnsigned(t, DigitRun(t))

ParseFloat(str) == ParseSigned(Trim(str))

(***************************************************************************)
(* detectLocale                                                            *)
(***************************************************************************)
\* const [locale, q] = parts: "en-US", "0.9" -> { locale: "en", quality: 0.9 }
LanguageOf(parts) ==
    [locale |-> ToLowerCase(Split(parts[1], <<"-">>)[1]),
     quality |-> IF Len(parts) >= 2 /\ Truthy(parts[2])
                 THEN ParseFloat(parts[2])
                 ELSE Number(1000)]

\* One header entry, trimmed and split at ";q="
ParseLanguage(lang) == LanguageOf(Split(Trim(lang), <<";", "q", "=">>))

ParseLanguages(entries) ==
    [i \in 1..Len(entries) |-> ParseLanguage(entries[i])]

\* CompareQuality putting the lower quality first
CompareQuality_Ascending(a, b) ==
    IF a.quality.nan \/ b.quality.nan
    THEN 0
    ELSE a.quality.thousandths - b.quality.thousandths

\* (a, b) => b.quality - a.quality; a NaN result counts as +0 in Array.sort
CompareQuality(a, b) ==
    IF a.quality.nan \/ b.quality.nan
    THEN 0
    ELSE b.quality.thousandths - a.quality.thousandths

\* Insert x after every element that does not sort after it (stable).
InsertSorted(sorted, x) ==
    LET later == {i \in 1..Len(sorted) : CompareQuality(sorted[i], x) > 0}
        at == IF later = {} THEN Len(sorted) + 1
              ELSE CHOOSE i \in later : \A j \in later : i <= j
    IN SubSeq(sorted, 1, at - 1) \o <<x>> \o SubSeq(sorted, at, Len(sorted))

\* Array.prototype.sort with CompareQuality as a stable insertion sort. With
\* numeric qualities every stable sort gives this order.
RECURSIVE SortByQuality(_)
SortByQuality(languages) ==
    IF languages = <<>> THEN <<>>
    ELSE InsertSorted(SortByQuality(SubSeq(languages, 1, Len(languages) - 1)),
                      languages[Len(languages)])

\* V8 (Node.js), arrays shorter than 64: CountAndMakeRun takes the longest
\* run at the start of the array, descending when the second element sorts
\* before the first, and reverses a descending run.
RunContinues(languages, isDescending, idx) ==
    IF isDescending
    THEN CompareQuality(languages[idx], languages[idx - 1]) < 0
    ELSE CompareQuality(languages[idx], languages[idx - 1]) >= 0

RunLength(languages, isDescending) ==
    CHOOSE k \in 2..Len(languages) :
        /\ \A idx \in 3..k : RunContinues(languages, isDescending, idx)
        /\ k < Len(languages) => ~RunContinues(languages, isDescending, k + 1)

ReverseRange(languages, n) ==
    [i \in 1..Len(languages) |->
        IF i <= n THEN languages[n + 1 - i] ELSE languages[i]]

MadeRun(languages, isDescending) ==
    IF isDescending
    THEN ReverseRange(languages, RunLength(languages, isDescending))
    ELSE languages

\* the binary search of BinaryInsertionSort; left and right count from 0
RECURSIVE BinarySearch(_, _, _, _)
BinarySearch(languages, pivot, left, right) ==
    IF left >= right THEN left
    ELSE IF CompareQuality(pivot, languages[left + ((right - left) \div 2) + 1]) < 0
    THEN BinarySearch(languages, pivot, left, left + ((right - left) \div 2))
    ELSE BinarySearch(languages, pivot, left + ((right - left) \div 2) + 1, right)

\* the element at index start (from 0) moved to index left
MoveTo(languages, start, left) ==
    SubSeq(languages, 1, left) \o <<languages[start + 1]>>
        \o SubSeq(languages, left + 1, start)
        \o SubSeq(languages, start + 2, Len(languages))

RECURSIVE BinaryInsertionSort(_, _)
BinaryInsertionSort(languages, start) ==
    IF start >= Len(languages) THEN languages
    ELSE BinaryInsertionSort(
             MoveTo(languages, start,
                    BinarySearch(languages, languages[start + 1], 0, start)),
             start + 1)

\* Array.prototype.sort with CompareQuality as V8 runs it: one run, extended
\* to the whole array by binary insertion
TimSort(languages) ==
    IF Len(languages) < 2 THEN languages
    ELSE BinaryInsertionSort(
             MadeRun(languages, CompareQuality(languages[2], languages[1]) < 0),
             RunLength(languages, CompareQuality(languages[2], languages[1]) < 0))

\* With a NaN quality the comparator is not consistent and the sort order
\* is implementation-defined: the orders the engines above leave.
SortOutcomes(languages) == {SortByQuality(languages), TimSort(languages)}

\* FirstSupported settling for the preferred language when none is supported
FirstSupported_Preferred(languages, supportedLocales) ==
    LET matches == {i \in 1..Len(languages) :
                       Includes(supportedLocales, languages[i].locale)}
    IN IF matches = {} THEN languages[1].locale
       ELSE languages[CHOOSE i \in matches : \A j \in matches : i <= j].locale

\* the loop over the sorted languages
FirstSupported(languages, supportedLocales) ==
    LET matches == {i \in 1..Len(languages) :
                       Includes(supportedLocales, languages[i].locale)}
    IN IF matches = {} THEN Null
       ELSE languages[CHOOSE i \in matches : \A j \in matches : i <= j].locale

detectLocale(acceptLanguage, supportedLocales) ==
    IF ~Truthy(acceptLanguage) THEN Null
    ELSE FirstSupported(
             SortByQuality(ParseLanguages(Split(acceptLanguage, <<",">>))),
             supportedLocales)

\* what a call of detectLocale may return, over the engines it runs on
detectLocaleOutcomes(acceptLanguage, supportedLocales) ==
    IF ~Truthy(acceptLanguage) THEN {Null}
    ELSE {FirstSupported(languages, supportedLocales) :
             languages \in SortOutcomes(
                               ParseLanguages(Split(acceptLanguage, <<",">>)))}

(***************************************************************************)
(* Configuration, as create() destructures it.  excludePaths is kept as a  *)
(* list: an absent excludePaths is the empty list it defaults to.  The     *)
(* optional flags prefixDefault and detectLanguage are "undefined", "true" *)
(* or "false"; routing is "undefined" or "rewrite".                        *)
(***************************************************************************)
fallbackLocaleOf(cfg) ==
    IF cfg.fallbackLocale = Undefined THEN cfg.defaultLocale
    ELSE cfg.fallbackLocale

\* isRewriteMode giving way to an explicit detectLanguage: false
isRewriteMode_UnlessFlags(cfg) ==
    cfg.routing = "rewrite" /\ cfg.detectLanguage # "false"

isRewriteMode(cfg) == cfg.routing = "rewrite"

prefixDefaultOf(cfg) ==
    IF isRewriteMode(cfg) THEN FALSE
    ELSE Nullish(cfg.prefixDefault, "false") = "true"

detectLanguageOf(cfg) ==
    IF isRewriteMode(cfg) THEN TRUE
    ELSE Nullish(cfg.detectLanguage, "true") = "true"

(***************************************************************************)
(* Responses.  status is the status the handler passes, 0 when it passes   *)
(* none; xLocale is the x-locale response header of the Next.js proxy.     *)
(***************************************************************************)
RedirectStatus == 302

NoResponse ==
    [type |-> "none", pathname |-> Undefined, status |-> 0, xLocale |-> Undefined]

Continue ==
    [type |-> "next", pathname |-> Undefined, status |-> 0, xLocale |-> Undefined]

Rewrite(path) ==
    [type |-> "rewrite", pathname |-> path, status |-> 0, xLocale |-> Undefined]

Redirect(path, status) ==
    [type |-> "redirect", pathname |-> path, status |-> status,
     xLocale |-> Undefined]

WithLocaleHeader(resp, locale) == [resp EXCEPT !.xLocale = locale]

EmptyLocals ==
    [locales |-> <<>>, locale |-> Undefined, originalPathname |-> Undefined]

(***************************************************************************)
(* Pieces shared by the handlers' bodies.                                  *)
(***************************************************************************)
STATIC_FILE_EXTENSIONS ==
    { <<"i", "c", "o">>, <<"p", "n", "g">>, <<"j", "p", "g">>,
      <<"j", "p", "e", "g">>, <<"g", "i", "f">>, <<"s", "v", "g">>,
      <<"w", "e", "b", "p">>, <<"a", "v", "i", "f">>, <<"c", "s", "s">>,
      <<"j", "s">>, <<"m", "j", "s">>, <<"w", "o", "f", "f">>,
      <<"w", "o", "f", "f", "2">>, <<"t", "t", "f">>, <<"e", "o", "t">>,
      <<"o", "t", "f">>, <<"m", "p", "3">>, <<"m", "p", "4">>,
      <<"w", "e", "b", "m">>, <<"o", "g", "g">>, <<"w", "a", "v">>,
      <<"p", "d", "f">>, <<"z", "i", "p">>, <<"j", "s", "o", "n">>,
      <<"x", "m", "l">>, <<"t", "x", "t">>, <<"m", "a", "p">> }

\* STATIC_FILE_EXTENSIONS.test(pathname): /\.(ico|...)$/i, a dot followed
\* by one of the extensions, in any case, up to the end of the path
IsStaticFile(pathname) ==
    \E i \in 1..Len(pathname) :
        /\ pathname[i] = "."
        /\ ToLowerCase(Slice(pathname, i)) \in STATIC_FILE_EXTENSIONS

\* the loop over excludePaths
IsExcludedPath(excludePaths, pathname) ==
    \E i \in 1..Len(excludePaths) : StartsWith(pathname, excludePaths[i])

\* pathname.startsWith(`/${locale}/`) || pathname === `/${locale}`
HasPrefixOf(pathname, locale) ==
    \/ StartsWith(pathname, <<"/">> \o locale \o <<"/">>)
    \/ pathname = <<"/">> \o locale

\* UrlLocale matching only `/${locale}/`, not the bare `/${locale}`
UrlLocale_SlashOnly(locales, pathname) ==
    LET found == {i \in 1..Len(locales) :
                     StartsWith(pathname, <<"/">> \o locales[i] \o <<"/">>)}
    IN IF found = {} THEN Undefined
       ELSE locales[CHOOSE i \in found : \A j \in found : i <= j]

\* locales.find(...): the first locale of the list whose prefix the path has
UrlLocale(locales, pathname) ==
    LET found == {i \in 1..Len(locales) : HasPrefixOf(pathname, locales[i])}
    IN IF found = {} THEN Undefined
       ELSE locales[CHOOSE i \in found : \A j \in found : i <= j]

\* pathname === '/' ? `/${locale}` : `/${locale}${pathname}`
NewPathname(locale, pathname) ==
    IF pathname = <<"/">> THEN <<"/">> \o locale
    ELSE <<"/">> \o locale \o pathname

\* CleanPathname slicing by the length of the locale, without its slash
CleanPathname_LocaleLength(pathname, urlLocale) ==
    IF pathname = <<"/">> \o urlLocale THEN <<"/">>
    ELSE Slice(pathname, Len(urlLocale))

\* pathname === `/${urlLocale}` ? '/' : pathname.slice(`/${urlLocale}`.length)
CleanPathname(pathname, urlLocale) ==
    IF pathname = <<"/">> \o urlLocale THEN <<"/">>
    ELSE Slice(pathname, Len(<<"/">> \o urlLocale))

\* DetectedLocale falling back to defaultLocale
DetectedLocale_DefaultLocale(cfg, acceptLanguage) ==
    OrElse(detectLocale(acceptLanguage, cfg.locales), cfg.defaultLocale)

\* detectLocale(acceptLanguage, locales) || fallbackLocale
DetectedLocale(cfg, acceptLanguage) ==
    OrElse(detectLocale(acceptLanguage, cfg.locales), fallbackLocaleOf(cfg))

(***************************************************************************)
(* The Astro middleware returned by create(config).  Each operator gives   *)
(* the locals after the call, the response, and whether detectLocale ran.  *)
(***************************************************************************)
Result(loc, resp, neg) == [locals |-> loc, response |-> resp, negotiated |-> neg]

\* AstroRewriteMode without the "locale already set" guard
AstroRewriteMode_NoGuard(cfg, req, loc, urlLocale) ==
    IF Truthy(urlLocale)
    THEN Result([loc EXCEPT !.originalPathname = req.pathname,
                            !.locale = urlLocale],
                Rewrite(CleanPathname(req.pathname, urlLocale)),
                FALSE)
    ELSE Result([loc EXCEPT !.originalPathname = req.pathname,
                            !.locale = DetectedLocale(cfg, req.acceptLanguage)],
                Continue,
                TRUE)

\* SSR rewrite mode
AstroRewriteMode(cfg, req, loc, urlLocale) ==
    IF Truthy(loc.locale)
    THEN Result(loc, Continue, FALSE)
    ELSE IF Truthy(urlLocale)
    THEN Result([loc EXCEPT !.originalPathname = req.pathname,
                            !.locale = urlLocale],
                Rewrite(CleanPathname(req.pathname, urlLocale)),
                FALSE)
    ELSE Result([loc EXCEPT !.originalPathname = req.pathname,
                            !.locale = DetectedLocale(cfg, req.acceptLanguage)],
                Continue,
                TRUE)

\* AstroDetected comparing the detected locale with fallbackLocale
AstroDetected_FallbackCompared(cfg, pathname, detectedLocale) ==
    IF prefixDefaultOf(cfg)
    THEN Redirect(NewPathname(detectedLocale, pathname), RedirectStatus)
    ELSE IF detectedLocale # fallbackLocaleOf(cfg)
         THEN Redirect(NewPathname(detectedLocale, pathname), RedirectStatus)
         ELSE Rewrite(NewPathname(detectedLocale, pathname))

\* URL has no locale prefix, detectLanguage: the branch on the detected locale
AstroDetected(cfg, pathname, detectedLocale) ==
    IF prefixDefaultOf(cfg)
    THEN Redirect(NewPathname(detectedLocale, pathname), RedirectStatus)
    ELSE IF detectedLocale # cfg.defaultLocale
         THEN Redirect(NewPathname(detectedLocale, pathname), RedirectStatus)
         ELSE Rewrite(NewPathname(detectedLocale, pathname))

AstroDetect(cfg, req) ==
    AstroDetected(cfg, req.pathname, DetectedLocale(cfg, req.acceptLanguage))

\* AstroNoDetect serving defaultLocale instead of fallbackLocale
AstroNoDetect_DefaultLocale(cfg, req) ==
    IF prefixDefaultOf(cfg)
    THEN Redirect(NewPathname(cfg.defaultLocale, req.pathname), RedirectStatus)
    ELSE Rewrite(NewPathname(cfg.defaultLocale, req.pathname))

\* URL has no locale prefix, no detection
AstroNoDetect(cfg, req) ==
    IF prefixDefaultOf(cfg)
    THEN Redirect(NewPathname(fallbackLocaleOf(cfg), req.pathname),
                  RedirectStatus)
    ELSE Rewrite(NewPathname(fallbackLocaleOf(cfg), req.pathname))

\* AstroMiddleware running the exclusion checks after the rewrite-mode branch
AstroMiddleware_ExclusionLate(cfg, req, loc) ==
    IF isRewriteMode(cfg)
    THEN AstroRewriteMode(cfg, req, [loc EXCEPT !.locales = cfg.locales],
                          UrlLocale(cfg.locales, req.pathname))
    ELSE IF IsExcludedPath(cfg.excludePaths, req.pathname)
    THEN Result([loc EXCEPT !.locales = cfg.locales], Continue, FALSE)
    ELSE IF IsStaticFile(req.pathname)
    THEN Result([loc EXCEPT !.locales = cfg.locales], Continue, FALSE)
    ELSE IF Truthy(UrlLocale(cfg.locales, req.pathname))
    THEN Result([loc EXCEPT !.locales = cfg.locales], Continue, FALSE)
    ELSE IF detectLanguageOf(cfg)
    THEN Result([loc EXCEPT !.locales = cfg.locales], AstroDetect(cfg, req), TRUE)
    ELSE Result([loc EXCEPT !.locales = cfg.locales], AstroNoDetect(cfg, req), FALSE)

AstroMiddleware(cfg, req, loc) ==
    LET stored == [loc EXCEPT !.locales = cfg.locales]
        urlLocale == UrlLocale(cfg.locales, req.pathname)
    IN IF IsExcludedPath(cfg.excludePaths, req.pathname)
       THEN Result(stored, Continue, FALSE)
       ELSE IF IsStaticFile(req.pathname)
       THEN Result(stored, Continue, FALSE)
       ELSE IF isRewriteMode(cfg)
       THEN AstroRewriteMode(cfg, req, stored, urlLocale)
       ELSE IF Truthy(urlLocale)
       THEN Result(stored, Continue, FALSE)
       ELSE IF detectLanguageOf(cfg)
       THEN Result(stored, AstroDetect(cfg, req), TRUE)
       ELSE Result(stored, AstroNoDetect(cfg, req), FALSE)

(***************************************************************************)
(* The Next.js proxy returned by create(config).  It reads no excludePaths *)
(* and keeps no locals: the resolved locale travels in the x-locale header *)
(* and NextResponse.redirect is called without a status.                   *)
(***************************************************************************)
ProxyRewriteMode(cfg, req, urlLocale) ==
    IF Truthy(urlLocale)
    THEN Result(EmptyLocals,
                WithLocaleHeader(Rewrite(CleanPathname(req.pathname, urlLocale)),
                                 urlLocale),
                FALSE)
    ELSE Result(EmptyLocals,
                WithLocaleHeader(Continue,
                                 DetectedLocale(cfg, req.acceptLanguage)),
                TRUE)

\* ProxyDetected without the prefixDefault branch
ProxyDetected_RewritesDefault(cfg, pathname, detectedLocale) ==
    IF detectedLocale # cfg.defaultLocale
    THEN Redirect(NewPathname(detectedLocale, pathname), 0)
    ELSE Rewrite(NewPathname(detectedLocale, pathname))

ProxyDetected(cfg, pathname, detectedLocale) ==
    IF prefixDefaultOf(cfg)
    THEN Redirect(NewPathname(detectedLocale, pathname), 0)
    ELSE IF detectedLocale # cfg.defaultLocale
         THEN Redirect(NewPathname(detectedLocale, pathname), 0)
         ELSE Rewrite(NewPathname(detectedLocale, pathname))

ProxyDetect(cfg, req) ==
    ProxyDetected(cfg, req.pathname, DetectedLocale(cfg, req.acceptLanguage))

ProxyNoDetect(cfg, req) ==
    IF prefixDefaultOf(cfg)
    THEN Redirect(NewPathname(fallbackLocaleOf(cfg), req.pathname), 0)
    ELSE Rewrite(NewPathname(fallbackLocaleOf(cfg), req.pathname))

ProxyMiddleware(cfg, req) ==
    LET urlLocale == UrlLocale(cfg.locales, req.pathname)
    IN IF isRewriteMode(cfg)
       THEN ProxyRewriteMode(cfg, req, urlLocale)
       ELSE IF Truthy(urlLocale)
       THEN Result(EmptyLocals, Continue, FALSE)
       ELSE IF detectLanguageOf(cfg)
       THEN Result(EmptyLocals, ProxyDetect(cfg, req), TRUE)
       ELSE Result(EmptyLocals, ProxyNoDetect(cfg, req), FALSE)

\* the handler of the deployed adapter
Handle(adp, cfg, req, loc) ==
    IF adp = "astro" THEN AstroMiddleware(cfg, req, loc)
    ELSE ProxyMiddleware(cfg, req)

(***************************************************************************)
(* Inputs: configurations, request paths and Accept-Language headers.      *)
(***************************************************************************)
ja == <<"j", "a">>
en == <<"e", "n">>
fr == <<"f", "r">>

Locales == <<ja, en>>

Flags == {"undefined", "true", "false"}

\* Standard configurations carry any flags.  Rewrite configurations carry
\* none (the declared shape) or the flags that contradict the forced values.
Configs ==
    [locales : {Locales},
     defaultLocale : {ja, en},
     fallbackLocale : {Undefined, ja, fr},
     excludePaths : {<<>>, << <<"/", "a", "p", "i">> >>},
     routing : {"undefined"},
     prefixDefault : Flags,
     detectLanguage : Flags]
    \cup
    [locales : {Locales},
     defaultLocale : {ja, en},
     fallbackLocale : {Undefined, ja, fr},
     excludePaths : {<<>>, << <<"/", "a", "p", "i">> >>},
     routing : {"rewrite"},
     prefixDefault : {"undefined", "true"},
     detectLanguage : {"undefined", "false"}]

AllPathnames ==
    { <<"/">>,
      <<"/", "a">>,
      <<"/", "j", "a">>,
      <<"/", "e", "n">>,
      <<"/", "j", "a", "/">>,
      <<"/", "j", "a", "n">>,
      <<"/", "a", "p", "i">>,
      <<"/", "j", "a", "/", "a">>,
      <<"/", "e", "n", "/", "a">>,
      <<"/", "a", ".", "j", "s">>,
      <<"/", "a", ".", "J", "S">>,
      <<"/", "a", "p", "i", "/", "a">>,
      <<"/", "j", "a", "/", "j", "a">>,
      <<"/", "e", "n", "/", "j", "a">>,
      <<"/", "f", "r", "/", "j", "a">>,
      <<"/", "j", "a", "/", "a", ".", "j", "s">> }

Pathnames == {p \in AllPathnames : Len(p) <= MaxPathLen}

\* Headers from which negotiation gets no locale: the absent header, the
\* empty one, a malformed one (";q=x,") and one naming unsupported languages.
UnmatchedLanguages ==
    { Null,
      <<>>,
      <<";", "q", "=", "x", ",">>,
      <<"f", "r", ",", "d", "e", ";", "q", "=", "0", ".", "5">> }

AcceptLanguages ==
    UnmatchedLanguages \cup
    { <<"e", "n", ";", "q", "=", "0", ".", "8", ",", "j", "a">>,
      <<"E", "N", "-", "u", "s">> }

NoRequest == [pathname |-> Undefined, acceptLanguage |-> Undefined]

Requests == [pathname : Pathnames, acceptLanguage : AcceptLanguages]

\* the requests in flight at the same time, and a context no request holds
Slots == 1..MaxInflight

IdleContext ==
    [first |-> NoRequest, request |-> NoRequest, locals |-> EmptyLocals,
     response |-> NoResponse, negotiated |-> FALSE, rewrites |-> 0]

\* no exported function is being called
NoCall == [fn |-> "none", args |-> <<>>, done |-> FALSE, result |-> Null]

(***************************************************************************)
(* The state machine: one deployment serving inbound requests one after    *)
(* the other.  Astro runs the middleware chain again on the target of a    *)
(* context.rewrite(), with the same request headers and the same locals.   *)
(***************************************************************************)
Init ==
    /\ adapter \in {"astro", "next"}
    /\ config \in Configs
    /\ request = NoRequest
    /\ locals = EmptyLocals
    /\ response = NoResponse
    /\ negotiated = FALSE
    /\ rewrites = 0
    /\ inflight = [s \in Slots |-> IdleContext]
    /\ call = NoCall

\* The context after the handler returned r for req.
Returned(req, r) ==
    /\ request' = req
    /\ locals' = r.locals
    /\ response' = r.response
    /\ negotiated' = r.negotiated
    /\ UNCHANGED <<adapter, config, inflight, call>>

Invoke(req) == Returned(req, Handle(adapter, config, req, locals))

\* An inbound request reaches the handler with a fresh context.
OnRequest(req) ==
    /\ response = NoResponse
    /\ Invoke(req)
    /\ UNCHANGED rewrites

\* context.rewrite(path): the handler runs again for the rewritten path.
OnRewrite ==
    /\ adapter = "astro"
    /\ response.type = "rewrite"
    /\ rewrites < MaxRewrites
    /\ Invoke([pathname |-> response.pathname,
               acceptLanguage |-> request.acceptLanguage])
    /\ rewrites' = rewrites + 1

\* The response is sent and the context discarded.
Finish ==
    /\ response # NoResponse
    /\ request' = NoRequest
    /\ locals' = EmptyLocals
    /\ response' = NoResponse
    /\ negotiated' = FALSE
    /\ rewrites' = 0
    /\ UNCHANGED <<adapter, config, inflight, call>>

Next ==
    \/ \E req \in Requests : OnRequest(req)
    \/ OnRewrite
    \/ Finish

Spec == Init /\ [][Next]_vars

(***************************************************************************)
(* Concurrent requests.  One handler, created once from one configuration, *)
(* is called for several requests in flight at the same time; each call    *)
(* receives the context of its own request.  A call runs to its return     *)
(* without yielding, so the calls of different requests interleave between *)
(* the first invocation, the invocations after a rewrite and the response. *)
(***************************************************************************)
ConcurrentConfigs ==
    {c \in Configs : /\ c.defaultLocale = en
                     /\ c.fallbackLocale = fr
                     /\ c.excludePaths # <<>>}

ConcurrentRequests ==
    [pathname : Pathnames \cap {<<"/">>, <<"/", "e", "n">>,
                                <<"/", "a", "p", "i">>,
                                <<"/", "j", "a", "/", "a">>},
     acceptLanguage : AcceptLanguages \ {<<"E", "N", "-", "u", "s">>}]

\* LocalsOf reading one store shared by every request of the handler
LocalsOf_Shared(contexts, s) ==
    contexts[CHOOSE t \in DOMAIN contexts : \A u \in DOMAIN contexts : t <= u].locals

\* context.locals of the request the handler is called for
LocalsOf(contexts, s) == contexts[s].locals

\* the context after the handler returned r for req
Invoked(ctx, req, r) ==
    [ctx EXCEPT !.request = req, !.locals = r.locals,
                !.response = r.response, !.negotiated = r.negotiated]

\* the first invocation for an inbound request
Arrived(req, loc) ==
    [Invoked(IdleContext, req, Handle(adapter, config, req, loc))
        EXCEPT !.first = req]

\* the request the handler sees after context.rewrite(path)
RewrittenRequest(ctx) ==
    [pathname |-> ctx.response.pathname,
     acceptLanguage |-> ctx.request.acceptLanguage]

Reinvoked(ctx, req, loc) ==
    [Invoked(ctx, req, Handle(adapter, config, req, loc))
        EXCEPT !.rewrites = @ + 1]

ConcurrentInit ==
    /\ adapter = "astro"
    /\ config \in ConcurrentConfigs
    /\ request = NoRequest
    /\ locals = EmptyLocals
    /\ response = NoResponse
    /\ negotiated = FALSE
    /\ rewrites = 0
    /\ inflight = [s \in Slots |-> IdleContext]
    /\ call = NoCall

Single ==
    <<adapter, config, request, locals, response, negotiated, rewrites, call>>

\* An inbound request reaches the handler with a context of its own.
Arrive(s, req) ==
    /\ inflight[s] = IdleContext
    /\ inflight' = [inflight EXCEPT ![s] = Arrived(req, LocalsOf(inflight, s))]
    /\ UNCHANGED Single

\* context.rewrite(path) of request s: the handler runs again for it.
Resume(s) ==
    /\ inflight[s].response.type = "rewrite"
    /\ inflight[s].rewrites < MaxRewrites
    /\ inflight' = [inflight EXCEPT ![s] =
                        Reinvoked(@, RewrittenRequest(@), LocalsOf(inflight, s))]
    /\ UNCHANGED Single

\* The response of request s is sent and its context discarded.
Respond(s) ==
    /\ inflight[s].response # NoResponse
    /\ inflight' = [inflight EXCEPT ![s] = IdleContext]
    /\ UNCHANGED Single

ConcurrentNext ==
    \/ \E s \in Slots, req \in ConcurrentRequests : Arrive(s, req)
    \/ \E s \in Slots : Resume(s)
    \/ \E s \in Slots : Respond(s)

SpecConcurrent == ConcurrentInit /\ [][ConcurrentNext]_vars

(***************************************************************************)
(* Calls of the exported functions.  A call starts with its arguments and  *)
(* returns once; no handler is involved.                                   *)
(***************************************************************************)
NoHandler ==
    /\ adapter = "none"
    /\ config = [locales |-> <<>>]
    /\ request = NoRequest
    /\ locals = EmptyLocals
    /\ response = NoResponse
    /\ negotiated = FALSE
    /\ rewrites = 0
    /\ inflight = [s \in Slots |-> IdleContext]

Handler ==
    <<adapter, config, request, locals, response, negotiated, rewrites, inflight>>

Calls(fn, argss, results) ==
    [fn : {fn}, args : argss, done : {FALSE}, result : results]

Return(result) ==
    /\ call' = [call EXCEPT !.done = TRUE, !.result = result]
    /\ UNCHANGED Handler

(***************************************************************************)
(* detectLocale called on headers of up to MaxEntries entries.             *)
(***************************************************************************)
HeaderEntries ==
    { <<"j", "a">>,
      <<"d", "e">>,
      <<"E", "N", "-", "u", "s">>,
      <<"e", "n", ";", "q", "=", "0", ".", "8">>,
      <<"e", "n", ";", "q", "=", "0", ".", "5">>,
      <<"j", "a", ";", "q", "=", "0", ".", "8">>,
      <<"f", "r", ";", "q", "=", "0", ".", "9">>,
      <<"j", "a", ";", "q", "=", "x">> }

RECURSIVE Join(_, _)
Join(parts, sep) ==
    IF Len(parts) = 1 THEN parts[1]
    ELSE parts[1] \o sep \o Join(Tail(parts), sep)

Headers ==
    {Null, <<>>} \cup
    {Join(entries, <<",">>) :
        entries \in UNION {[1..n -> HeaderEntries] : n \in 1..MaxEntries}}

SupportedLocales == {<<ja, en>>, <<ja, en, fr>>}

DetectInit ==
    /\ NoHandler
    /\ call \in Calls("detectLocale",
                      [acceptLanguage : Headers,
                       supportedLocales : SupportedLocales],
                      {Null})

CallDetectLocale ==
    /\ call.fn = "detectLocale"
    /\ ~call.done
    /\ \E locale \in detectLocaleOutcomes(call.args.acceptLanguage,
                                          call.args.supportedLocales) :
           Return(locale)

DetectNext == CallDetectLocale

SpecDetect == DetectInit /\ [][DetectNext]_vars

(***************************************************************************)
(* The path helpers of core/router.  The optional prefixDefault parameter  *)
(* is "undefined", "true" or "false".                                      *)
(***************************************************************************)
\* path.startsWith('/') ? path : `/${path}`
CleanPath(path) == IF StartsWith(path, <<"/">>) THEN path ELSE <<"/">> \o path

\* Localized without the "avoid double prefixing" return
Localized_AlwaysPrefix(cleanPath, locale, defaultLocale, prefixDefault) ==
    IF locale = defaultLocale /\ ~prefixDefault
    THEN cleanPath
    ELSE IF cleanPath = <<"/">> THEN <<"/">> \o locale
    ELSE <<"/">> \o locale \o cleanPath

\* Localized giving the root a trailing slash
Localized_RootSlash(cleanPath, locale, defaultLocale, prefixDefault) ==
    IF \/ StartsWith(cleanPath, <<"/">> \o locale \o <<"/">>)
       \/ cleanPath = <<"/">> \o locale
    THEN cleanPath
    ELSE IF locale = defaultLocale /\ ~prefixDefault
    THEN cleanPath
    ELSE <<"/">> \o locale \o cleanPath

\* the body of getLocalizedPath once cleanPath is known
Localized(cleanPath, locale, defaultLocale, prefixDefault) ==
    IF \/ StartsWith(cleanPath, <<"/">> \o locale \o <<"/">>)
       \/ cleanPath = <<"/">> \o locale
    THEN cleanPath
    ELSE IF locale = defaultLocale /\ ~prefixDefault
    THEN cleanPath
    ELSE IF cleanPath = <<"/">> THEN <<"/">> \o locale
    ELSE <<"/">> \o locale \o cleanPath

getLocalizedPath(path, locale, defaultLocale, prefixDefault) ==
    Localized(CleanPath(path), locale, defaultLocale,
              Nullish(prefixDefault, "false") = "true")

\* removeLocalePrefix looking at the first locale of the list only
removeLocalePrefix_FirstOnly(pathname, locales) ==
    IF locales = <<>> THEN pathname
    ELSE IF StartsWith(pathname, <<"/">> \o locales[1] \o <<"/">>)
    THEN Slice(pathname, Len(locales[1]) + 1)
    ELSE IF pathname = <<"/">> \o locales[1] THEN <<"/">>
    ELSE pathname

\* removeLocalePrefix cutting the slash after the locale as well
RECURSIVE removeLocalePrefix_SlashCut(_, _)
removeLocalePrefix_SlashCut(pathname, locales) ==
    IF locales = <<>> THEN pathname
    ELSE IF StartsWith(pathname, <<"/">> \o locales[1] \o <<"/">>)
    THEN Slice(pathname, Len(locales[1]) + 2)
    ELSE IF pathname = <<"/">> \o locales[1] THEN <<"/">>
    ELSE removeLocalePrefix_SlashCut(pathname, Tail(locales))

\* the loop over locales, returning at the first locale that matches
RECURSIVE removeLocalePrefix(_, _)
removeLocalePrefix(pathname, locales) ==
    IF locales = <<>> THEN pathname
    ELSE IF StartsWith(pathname, <<"/">> \o locales[1] \o <<"/">>)
    THEN Slice(pathname, Len(locales[1]) + 1)
    ELSE IF pathname = <<"/">> \o locales[1] THEN <<"/">>
    ELSE removeLocalePrefix(pathname, Tail(locales))

\* hasLocalePrefix matching the locale as a plain string prefix
hasLocalePrefix_Substring(pathname, locale) ==
    StartsWith(pathname, <<"/">> \o locale)

hasLocalePrefix(pathname, locale) ==
    \/ StartsWith(pathname, <<"/">> \o locale \o <<"/">>)
    \/ pathname = <<"/">> \o locale

\* Language switching: first remove the current locale prefix, then add the
\* new one.
switchLocale(currentPath, locales, targetLocale, defaultLocale, prefixDefault) ==
    getLocalizedPath(removeLocalePrefix(currentPath, locales),
                     targetLocale, defaultLocale, prefixDefault)

(***************************************************************************)
(* getLinkHref.  The fourth argument is undefined, a string or false (the  *)
(* legacy signature), or an options object { locale, locales }; it is a    *)
(* record of its typeof with the value, or the object's locale and         *)
(* locales.                                                                *)
(***************************************************************************)
False == <<"false">>

NoOptions == [type |-> "undefined", locale |-> Undefined, locales |-> Undefined]

\* the legacy overrideLocale parameter
LegacyOverride(overrideLocale) ==
    [type |-> IF overrideLocale = False THEN "boolean" ELSE "string",
     locale |-> overrideLocale, locales |-> Undefined]

\* { locale, locales }
OptionsObject(locale, locales) ==
    [type |-> "object", locale |-> locale, locales |-> locales]

OptionsOf_LegacyDropped(options) ==
    IF options.type = "object" THEN options
    ELSE [locale |-> Undefined, locales |-> Undefined]

\* opts: the options object, or { locale: options } of the legacy signature
OptionsOf(options) ==
    IF options.type = "object"
    THEN [locale |-> options.locale, locales |-> options.locales]
    ELSE [locale |-> options.locale, locales |-> Undefined]

NormalizedHref_Never(href, locales) == CleanPath(href)

\* cleanPath: the leading slash added, the locale prefix removed if locales
\* are provided
NormalizedHref(href, locales) ==
    IF locales # Undefined
    THEN removeLocalePrefix(CleanPath(href), locales)
    ELSE CleanPath(href)

\* `/${locale}` for the root, `/${locale}${cleanPath}` otherwise
PrefixedWith(locale, cleanPath) ==
    IF cleanPath = <<"/">> THEN <<"/">> \o locale
    ELSE <<"/">> \o locale \o cleanPath

LinkHref_AnyCurrentLocale(cleanPath, currentPathname, currentLocale, overrideLocale) ==
    IF overrideLocale = <<>> \/ overrideLocale = False THEN cleanPath
    ELSE IF overrideLocale # Undefined THEN PrefixedWith(overrideLocale, cleanPath)
    ELSE IF Truthy(currentLocale) THEN PrefixedWith(currentLocale, cleanPath)
    ELSE cleanPath

LinkHref_FalseAutoDetects(cleanPath, currentPathname, currentLocale, overrideLocale) ==
    IF overrideLocale = <<>> THEN cleanPath
    ELSE IF overrideLocale # Undefined /\ overrideLocale # False
    THEN PrefixedWith(overrideLocale, cleanPath)
    ELSE IF Truthy(currentLocale)
            /\ hasLocalePrefix(currentPathname, currentLocale)
    THEN PrefixedWith(currentLocale, cleanPath)
    ELSE cleanPath

\* the override rules, then auto-detection from the current URL
LinkHref(cleanPath, currentPathname, currentLocale, overrideLocale) ==
    IF overrideLocale = <<>> \/ overrideLocale = False THEN cleanPath
    ELSE IF overrideLocale # Undefined THEN PrefixedWith(overrideLocale, cleanPath)
    ELSE IF Truthy(currentLocale)
            /\ hasLocalePrefix(currentPathname, currentLocale)
    THEN PrefixedWith(currentLocale, cleanPath)
    ELSE cleanPath

getLinkHref(href, currentPathname, currentLocale, options) ==
    LinkHref(NormalizedHref(href, OptionsOf(options).locales),
             currentPathname, currentLocale, OptionsOf(options).locale)

(***************************************************************************)
(* The path helpers called on paths of up to MaxSegments segments.         *)
(***************************************************************************)
Segments == {ja, en, fr, <<"j", "a", "n">>, <<"a">>}

SegmentLists == UNION {[1..n -> Segments] : n \in 0..MaxSegments}

Absolute(segments) ==
    IF segments = <<>> THEN <<"/">> ELSE <<"/">> \o Join(segments, <<"/">>)

\* URL pathnames, with and without a trailing slash
AbsolutePaths ==
    {Absolute(segments) : segments \in SegmentLists}
    \cup {Absolute(segments) \o <<"/">> : segments \in SegmentLists \ {<<>>}}

\* paths written without the leading slash, the empty path among them
RelativePaths == {Tail(Absolute(segments)) : segments \in SegmentLists}

RouterPaths == AbsolutePaths \cup RelativePaths

RouterLocales == {ja, en, fr}

RouterLocaleLists == {<<ja, en>>, <<en, ja>>, <<ja, en, fr>>}

\* the current URL of a Link: with a locale prefix, without, and empty
CurrentPathnames ==
    {<<>>, <<"/">>, <<"/">> \o ja, <<"/">> \o ja \o <<"/", "a">>,
     <<"/">> \o en, <<"/", "j", "a", "n">>, <<"/", "a">>}

CurrentLocales == {Undefined, ja, en}

Overrides == {ja, fr, <<>>, False}

LinkOptions ==
    {NoOptions}
    \cup {LegacyOverride(overrideLocale) : overrideLocale \in Overrides}
    \cup {OptionsObject(locale, locales) :
              locale \in Overrides \cup {Undefined},
              locales \in {Undefined, <<ja, en>>}}

RouterInit ==
    /\ NoHandler
    /\ call \in
           Calls("getLinkHref",
                 [href : RouterPaths, currentPathname : CurrentPathnames,
                  currentLocale : CurrentLocales, options : LinkOptions],
                 {Null})
           \cup
           Calls("getLocalizedPath",
                 [path : RouterPaths, locale : RouterLocales,
                  defaultLocale : {ja, en}, prefixDefault : Flags],
                 {Null})
           \cup
           Calls("removeLocalePrefix",
                 [pathname : RouterPaths, locales : RouterLocaleLists],
                 {Null})
           \cup
           Calls("hasLocalePrefix",
                 [pathname : RouterPaths, locale : RouterLocales],
                 {FALSE})
           \cup
           Calls("switchLocale",
                 [currentPath : AbsolutePaths, locales : RouterLocaleLists,
                  targetLocale : RouterLocales, defaultLocale : {ja, en},
                  prefixDefault : Flags],
                 {Null})

CallGetLocalizedPath ==
    /\ call.fn = "getLocalizedPath"
    /\ ~call.done
    /\ Return(getLocalizedPath(call.args.path, call.args.locale,
                               call.args.defaultLocale, call.args.prefixDefault))

CallRemoveLocalePrefix ==
    /\ call.fn = "removeLocalePrefix"
    /\ ~call.done
    /\ Return(removeLocalePrefix(call.args.pathname, call.args.locales))

CallHasLocalePrefix ==
    /\ call.fn = "hasLocalePrefix"
    /\ ~call.done
    /\ Return(hasLocalePrefix(call.args.pathname, call.args.locale))

CallSwitchLocale ==
    /\ call.fn = "switchLocale"
    /\ ~call.done
    /\ Return(switchLocale(call.args.currentPath, call.args.locales,
                           call.args.targetLocale, call.args.defaultLocale,
                           call.args.prefixDefault))

CallGetLinkHref ==
    /\ call.fn = "getLinkHref"
    /\ ~call.done
    /\ Return(getLinkHref(call.args.href, call.args.currentPathname,
                          call.args.currentLocale, call.args.options))

RouterNext ==
    \/ CallGetLinkHref
    \/ CallGetLocalizedPath
    \/ CallRemoveLocalePrefix
    \/ CallHasLocalePrefix
    \/ CallSwitchLocale

SpecRouter == RouterInit /\ [][RouterNext]_vars

(***************************************************************************)
(* resolveMessage.  A JavaScript value is a record of its typeof, its own  *)
(* properties (property name -> value) and, for a leaf, the text that      *)
(* String() gives.  Every object of a message tree is a plain object and   *)
(* inherits the properties of Object.prototype, which the in operator and  *)
(* property access see like own properties.                                *)
(***************************************************************************)
NoProps == [k \in {} |-> <<>>]

UndefinedValue == [type |-> "undefined", props |-> NoProps, text |-> Undefined]

\* null; String(null) is "null"
NullValue ==
    [type |-> "null", props |-> NoProps, text |-> <<"n", "u", "l", "l">>]

StringValue(text) == [type |-> "string", props |-> NoProps, text |-> text]

ObjectValue(props) == [type |-> "object", props |-> props, text |-> <<>>]

\* a built-in function; String() gives its source text
FunctionValue(name) ==
    [type |-> "function", props |-> NoProps,
     text |-> <<"f", "u", "n", "c", "t", "i", "o", "n", " ">> \o name
              \o <<"(", ")", " ", "{", " ", "[", "n", "a", "t", "i", "v", "e",
                  " ", "c", "o", "d", "e", "]", " ", "}">>]

toStringName == <<"t", "o", "S", "t", "r", "i", "n", "g">>

constructorName == <<"c", "o", "n", "s", "t", "r", "u", "c", "t", "o", "r">>

\* properties every plain object inherits (two of those of Object.prototype)
ObjectPrototype ==
    [k \in {toStringName, constructorName} |->
        IF k = toStringName THEN FunctionValue(toStringName)
        ELSE FunctionValue(<<"O", "b", "j", "e", "c", "t">>)]

\* k in obj
In(k, obj) == k \in DOMAIN obj.props \/ k \in DOMAIN ObjectPrototype

\* obj[k]
Get(obj, k) ==
    IF k \in DOMAIN obj.props THEN obj.props[k]
    ELSE IF k \in DOMAIN ObjectPrototype THEN ObjectPrototype[k]
    ELSE UndefinedValue

\* the loop of traverse over the segments of a path, starting from obj
RECURSIVE TraverseKeys(_, _)
TraverseKeys(obj, keys) ==
    IF keys = <<>> THEN obj
    ELSE IF obj.type = "object" /\ In(keys[1], obj)
    THEN TraverseKeys(Get(obj, keys[1]), Tail(keys))
    ELSE UndefinedValue

\* traverse(path)
Traverse(obj, path) == TraverseKeys(obj, Split(path, <<".">>))

\* getFullKey()
FullKey(key, namespace) ==
    IF Truthy(namespace) THEN namespace \o <<".">> \o key ELSE key

\* the returns of resolveMessage, obj being what the traversals left
Resolved(obj, key, namespace) ==
    IF obj = UndefinedValue THEN FullKey(key, namespace)
    ELSE IF obj.type = "object" THEN FullKey(key, namespace)
    ELSE obj.text

\* Traverse key if we haven't failed yet
AfterKey(obj, key) ==
    IF obj # UndefinedValue THEN Traverse(obj, key) ELSE obj

\* Traverse namespace first if present
AfterNamespace(messages, namespace) ==
    IF Truthy(namespace) THEN Traverse(messages, namespace) ELSE messages

\* the string returned, and whether the key was traversed
resolveMessage(messages, key, namespace) ==
    [value |-> Resolved(AfterKey(AfterNamespace(messages, namespace), key),
                        key, namespace),
     keyTraversed |-> AfterNamespace(messages, namespace) # UndefinedValue]

(***************************************************************************)
(* server.getTranslations of define(): the translation function that walks *)
(* the joined key in a single loop over a JSON copy of the messages.       *)
(***************************************************************************)
\* String() of a plain object
ObjectObject ==
    <<"[", "o", "b", "j", "e", "c", "t", " ", "O", "b", "j", "e", "c", "t", "]">>

\* String(obj)
StringOf(obj) == IF obj.type = "object" THEN ObjectObject ELSE obj.text

\* JSON.parse(JSON.stringify(moduleObj)): properties holding undefined or a
\* function are dropped
RECURSIVE JsonCopy(_)
JsonCopy(obj) ==
    IF obj.type = "object"
    THEN ObjectValue(
             [k \in {j \in DOMAIN obj.props :
                        obj.props[j].type \notin {"undefined", "function"}}
                 |-> JsonCopy(obj.props[k])])
    ELSE obj

\* the return inside the loop and the one after it
Walked(obj, fullKey) == IF obj = UndefinedValue THEN fullKey ELSE StringOf(obj)

\* the function getTranslations(locale, namespace) returns, applied to key,
\* messages being messages[locale]
getTranslations(messages, key, namespace) ==
    Walked(TraverseKeys(JsonCopy(messages),
                        Split(FullKey(key, namespace), <<".">>)),
           FullKey(key, namespace))

(***************************************************************************)
(* resolveMessage and getTranslations called on keys of up to              *)
(* MaxKeySegments segments.                                                *)
(***************************************************************************)
\* { c: { h: "Hi", n: { h: null } }, t: "T" }
Messages ==
    ObjectValue(
        [k \in {<<"c">>, <<"t">>} |->
            IF k = <<"t">> THEN StringValue(<<"T">>)
            ELSE ObjectValue(
                     [j \in {<<"h">>, <<"n">>} |->
                         IF j = <<"h">> THEN StringValue(<<"H", "i">>)
                         ELSE ObjectValue([i \in {<<"h">>} |-> NullValue])])])

MessageTrees == {Messages, UndefinedValue}

KeySegments == {<<"c">>, <<"h">>, <<"n">>, <<"t">>, <<"x">>, toStringName}

DottedKeys ==
    {Join(segments, <<".">>) :
        segments \in UNION {[1..n -> KeySegments] : n \in 1..MaxKeySegments}}

Namespaces == {Undefined, <<>>} \cup DottedKeys

MessagesInit ==
    /\ NoHandler
    /\ call \in Calls("resolveMessage",
                      [messages : MessageTrees, key : DottedKeys,
                       namespace : Namespaces],
                      {[value |-> Null, keyTraversed |-> FALSE]})
                \cup
                Calls("getTranslations",
                      [messages : {Messages}, key : DottedKeys,
                       namespace : Namespaces],
                      {Null})

CallResolveMessage ==
    /\ call.fn = "resolveMessage"
    /\ ~call.done
    /\ Return(resolveMessage(call.args.messages, call.args.key,
                             call.args.namespace))

CallGetTranslations ==
    /\ call.fn = "getTranslations"
    /\ ~call.done
    /\ Return(getTranslations(call.args.messages, call.args.key,
                              call.args.namespace))

MessagesNext ==
    \/ CallResolveMessage
    \/ CallGetTranslations

SpecMessages == MessagesInit /\ [][MessagesNext]_vars

(***************************************************************************)
(* Vocabulary of the properties.                                           *)
(***************************************************************************)
\* the latest invocation has returned and its response is in hand
Served == response # NoResponse

StandardMode == config.routing # "rewrite"

RewriteMode == config.routing = "rewrite"

\* the flags as configured, with their documented defaults
PrefixDefault == config.prefixDefault = "true"

DetectLanguage == config.detectLanguage # "false"

FallbackLocale ==
    IF config.fallbackLocale = Undefined THEN config.defaultLocale
    ELSE config.fallbackLocale

\* the path is excluded: under an excludePaths entry, or a static asset
Excluded(pathname) ==
    \/ IsExcludedPath(config.excludePaths, pathname)
    \/ IsStaticFile(pathname)

\* the path has the prefix of some configured locale
Prefixed(pathname) ==
    \E i \in 1..Len(config.locales) : HasPrefixOf(pathname, config.locales[i])

\* /{locale}{path}, and /{locale} for the root path
LocalePath(locale, pathname) ==
    IF Len(pathname) = 1 THEN <<"/">> \o locale
    ELSE <<"/">> \o locale \o pathname

\* the locale negotiated from the request's header, fallbackLocale when none
NegotiatedLocale ==
    IF detectLocale(request.acceptLanguage, config.locales) = Null
    THEN FallbackLocale
    ELSE detectLocale(request.acceptLanguage, config.locales)

\* a served request the standard decision table applies to
StandardUnprefixed ==
    /\ Served
    /\ StandardMode
    /\ ~Prefixed(request.pathname)
    /\ ~Excluded(request.pathname)

(***************************************************************************)
(* C1. Standard mode, prefixDefault = true, detectLanguage = false: every  *)
(* non-excluded unprefixed request is redirected to /{defaultLocale}{path} *)
(* whatever the header and the configured fallbackLocale.                  *)
(***************************************************************************)
C1_RedirectsToDefaultLocale ==
    (StandardUnprefixed /\ PrefixDefault /\ ~DetectLanguage)
        => /\ response.type = "redirect"
           /\ response.pathname = LocalePath(config.defaultLocale, request.pathname)

(***************************************************************************)
(* C2. Standard mode, prefixDefault = false, detectLanguage = true: with L *)
(* the negotiated locale (fallbackLocale when negotiation gives null), the *)
(* request is rewritten to /{L}{path} when L is the default locale and     *)
(* redirected to /{L}{path} otherwise.                                     *)
(***************************************************************************)
C2_DetectRewritesDefaultRedirectsOthers ==
    (StandardUnprefixed /\ ~PrefixDefault /\ DetectLanguage)
        => /\ response.pathname = LocalePath(NegotiatedLocale, request.pathname)
           /\ response.type = IF NegotiatedLocale = config.defaultLocale
                              THEN "rewrite" ELSE "redirect"

C2_Witness ==
    /\ StandardUnprefixed /\ ~PrefixDefault /\ DetectLanguage
    /\ detectLocale(request.acceptLanguage, config.locales) = Null
    /\ FallbackLocale # config.defaultLocale
    /\ response.type = "redirect"
    /\ response.pathname = <<"/">> \o FallbackLocale \o request.pathname

C4_PrefixDefaultAlwaysRedirects ==
    (StandardUnprefixed /\ PrefixDefault /\ DetectLanguage)
        => /\ response.type = "redirect"
           /\ response.pathname = LocalePath(NegotiatedLocale, request.pathname)

C4_Witness ==
    /\ StandardUnprefixed /\ PrefixDefault /\ DetectLanguage
    /\ NegotiatedLocale = config.defaultLocale
    /\ response.type = "redirect"
    /\ response.pathname = <<"/">> \o config.defaultLocale \o request.pathname

(***************************************************************************)
(* C5. Standard mode: a request whose path starts with /{locale}/ or is    *)
(* /{locale} for a configured locale is passed through, with no rewrite    *)
(* and no redirect, for every flag, fallbackLocale and header.             *)
(***************************************************************************)
C5_PrefixedPassesThrough ==
    (Served /\ StandardMode /\ Prefixed(request.pathname))
        => response = Continue

C5_Witness ==
    /\ Served /\ StandardMode
    /\ rewrites = 0
    /\ request.pathname = <<"/">> \o config.locales[1]
    /\ PrefixDefault /\ DetectLanguage
    /\ request.acceptLanguage # Null
    /\ response = Continue

(***************************************************************************)
(* C6. Exclusion precedence (Astro middleware): a request whose path       *)
(* starts with an excludePaths entry or ends with a static-asset extension *)
(* is passed through in both routing modes, before any locale logic: no    *)
(* negotiation, no resolved locale recorded, no request metadata written.  *)
(* As claimed: the context of a first invocation is left as it was.        *)
(***************************************************************************)
C6_ExcludedWritesNoMetadata ==
    (Served /\ adapter = "astro" /\ Excluded(request.pathname))
        => /\ response = Continue
           /\ ~negotiated
           /\ rewrites = 0 => locals = EmptyLocals

(***************************************************************************)
(* C6, amended: an excluded request is passed through before any locale    *)
(* logic: no negotiation, and the resolved locale and original pathname    *)
(* stay as they were; the one piece of request metadata written is         *)
(* locals.locales, the configured locale list, stored on every invocation. *)
(***************************************************************************)
C6_ExcludedPassesThrough ==
    [][(response' # NoResponse /\ adapter = "astro"
            /\ Excluded(request'.pathname))
           => /\ response' = Continue
              /\ ~negotiated'
              /\ locals' = [locals EXCEPT !.locales = config.locales]]_vars

C6_Witness ==
    /\ Served /\ adapter = "astro" /\ RewriteMode
    /\ Excluded(request.pathname)
    /\ request.acceptLanguage # Null
    /\ response = Continue
    /\ locals = [EmptyLocals EXCEPT !.locales = config.locales]

(***************************************************************************)
(* C7. Rewrite mode guard: once a resolved locale is present in locals,    *)
(* every later invocation on that request, on any path and with any        *)
(* header, returns next() and leaves the resolved locale and the original  *)
(* pathname as they are.  The later invocations are the one Astro makes    *)
(* on the rewritten path and every request of the model.                   *)
(***************************************************************************)
LaterInvocations ==
    Requests \cup
    (IF response.type = "rewrite"
     THEN {[pathname |-> response.pathname,
            acceptLanguage |-> request.acceptLanguage]}
     ELSE {})

GuardHolds(r) ==
    /\ r.response = Continue
    /\ r.locals.locale = locals.locale
    /\ r.locals.originalPathname = locals.originalPathname

C7_RewriteGuardIdempotent ==
    (adapter = "astro" /\ RewriteMode /\ Truthy(locals.locale))
        => \A req \in LaterInvocations :
               GuardHolds(AstroMiddleware(config, req, locals))

C7_Witness ==
    /\ adapter = "astro" /\ RewriteMode
    /\ rewrites = 1
    /\ response = Continue
    /\ Truthy(locals.locale)
    /\ ~Excluded(request.pathname)
    /\ locals.originalPathname # request.pathname

(***************************************************************************)
(* C8. Rewrite mode, first invocation, path with the prefix of locale l:   *)
(* l is recorded as the resolved locale (locals.locale, or the x-locale    *)
(* header of the Next.js proxy), the Astro middleware records the prefixed *)
(* path as original pathname, and the response is a rewrite to the path    *)
(* with /{l} removed, / when the path is /{l}; never a redirect.           *)
(***************************************************************************)
ResolvedLocale ==
    IF adapter = "astro" THEN locals.locale ELSE response.xLocale

\* the path with its leading /{l} removed
Stripped(pathname, l) ==
    IF Len(pathname) = Len(l) + 1 THEN <<"/">>
    ELSE SubSeq(pathname, Len(l) + 2, Len(pathname))

FirstRewriteModeInvocation ==
    /\ Served
    /\ RewriteMode
    /\ rewrites = 0
    /\ ~Excluded(request.pathname)

C9_RewriteModeDetectsAndContinues ==
    (FirstRewriteModeInvocation /\ ~Prefixed(request.pathname))
        => /\ response.type = "next"
           /\ response.pathname = Undefined
           /\ ResolvedLocale = NegotiatedLocale

C9_Witness ==
    /\ FirstRewriteModeInvocation /\ ~Prefixed(request.pathname)
    /\ detectLocale(request.acceptLanguage, config.locales) = Null
    /\ FallbackLocale \notin {config.locales[1], config.locales[2]}
    /\ response.type = "next"
    /\ ResolvedLocale = FallbackLocale

(***************************************************************************)
(* C10. With routing = "rewrite" the routing field is authoritative: every *)
(* invocation returns the response and leaves the metadata that it would   *)
(* under any other values of prefixDefault and detectLanguage.             *)
(***************************************************************************)
FlagVariants ==
    {[config EXCEPT !.prefixDefault = pd, !.detectLanguage = dl] :
        pd \in Flags, dl \in Flags}

C10_RewriteIgnoresStandardFlags ==
    [][(response' # NoResponse /\ RewriteMode)
           => \A variant \in FlagVariants :
                  Handle(adapter, variant, request', locals)
                      = Result(locals', response', negotiated')]_vars

C10_Witness ==
    /\ Served /\ RewriteMode
    /\ config.prefixDefault = "true" /\ config.detectLanguage = "false"
    /\ ~Excluded(request.pathname)
    /\ ~Prefixed(request.pathname)
    /\ response.type = "next"
    /\ ResolvedLocale = NegotiatedLocale

(***************************************************************************)
(* C11. Request-scoped metadata never leaks across requests: under every   *)
(* interleaving of the invocations of concurrent requests sharing one      *)
(* handler and configuration, an invocation changes the context of its own *)
(* request only, the resolved locale and original pathname it leaves are   *)
(* those the same request gets when it is served alone, and the shared     *)
(* configuration is never modified.                                        *)
(***************************************************************************)
ReinvokedAlone(ctx) == Reinvoked(ctx, RewrittenRequest(ctx), ctx.locals)

\* the context of a request served alone, after n invocations on rewrites
RECURSIVE Alone(_, _)
Alone(first, n) ==
    IF n = 0 THEN Arrived(first, EmptyLocals)
    ELSE ReinvokedAlone(Alone(first, n - 1))

Metadata(ctx) == <<ctx.locals.locale, ctx.locals.originalPathname>>

OwnMetadataOnly(s) ==
    /\ \A t \in Slots \ {s} : inflight'[t] = inflight[t]
    /\ inflight'[s] # IdleContext
           => Metadata(inflight'[s])
                  = Metadata(Alone(inflight'[s].first, inflight'[s].rewrites))

C11_NoLeakAcrossRequests ==
    [][/\ config' = config
       /\ \A s \in Slots : inflight'[s] # inflight[s] => OwnMetadataOnly(s)]_vars

C11_Witness ==
    /\ config.routing = "rewrite"
    /\ inflight[1].rewrites = 0
    /\ inflight[1].response.type = "rewrite"
    /\ inflight[1].locals.locale = ja
    /\ inflight[2].rewrites = 1
    /\ inflight[2].locals.locale = en
    /\ inflight[2].locals.originalPathname = <<"/", "e", "n">>
    /\ inflight[2].request.pathname = <<"/">>

(***************************************************************************)
(* C12. The routing engine has no failure outcome: for every path and      *)
(* every Accept-Language value (absent, empty, malformed, or naming only   *)
(* unsupported languages) an invocation returns exactly one of continue,   *)
(* rewrite and redirect, and when it negotiates and the header yields no   *)
(* locale, the locale it acts on is exactly fallbackLocale.                *)
(***************************************************************************)
\* the locale the latest invocation resolved, or put in front of the path
ActsOn(locale) ==
    IF response.type = "next" THEN ResolvedLocale = locale
    ELSE response.pathname = LocalePath(locale, request.pathname)

C12_AlwaysAnOutcomeFallbackOnNoMatch ==
    Served
        => /\ response.type \in {"next", "rewrite", "redirect"}
           /\ (negotiated /\ request.acceptLanguage \in UnmatchedLanguages)
                  => ActsOn(FallbackLocale)

C12_Witness ==
    /\ Served /\ negotiated
    /\ rewrites = 0
    /\ request.acceptLanguage = <<";", "q", "=", "x", ",">>
    /\ FallbackLocale = fr
    /\ response.type = "redirect"
    /\ response.pathname = <<"/", "f", "r", "/", "a">>

(***************************************************************************)
(* C13. detectLocale(header, supported) returns null when the header is    *)
(* null or empty; otherwise it returns the normalized range (primary       *)
(* subtag, lower-cased) of the first entry, in order of descending quality *)
(* with header order breaking ties and a missing quality counting as 1.0,  *)
(* whose normalized range is in supported, and null when there is none.    *)
(* Stated for the headers whose quality values all parse as numbers.       *)
(***************************************************************************)
Detected == call.fn = "detectLocale" /\ call.done

\* the entries of the header, and the parts of one entry around ";q="
EntriesOf(header) == Split(header, <<",">>)

EntryParts(entry) == Split(Trim(entry), <<";", "q", "=">>)

EntryRange(entry) == ToLowerCase(Split(EntryParts(entry)[1], <<"-">>)[1])

HasQuality(entry) == Len(EntryParts(entry)) >= 2 /\ EntryParts(entry)[2] # <<>>

QualityParses(entry) == HasQuality(entry) => ~ParseFloat(EntryParts(entry)[2]).nan

\* the quality of an entry in thousandths, otherwise when it does not parse
QualityOr(entry, otherwise) ==
    IF ~HasQuality(entry) THEN 1000
    ELSE IF ParseFloat(EntryParts(entry)[2]).nan THEN otherwise
    ELSE ParseFloat(EntryParts(entry)[2]).thousandths

Qualifies(entries, supported) ==
    {i \in 1..Len(entries) : Includes(supported, EntryRange(entries[i]))}

\* entry i comes before entry j: higher quality, or the same and earlier
Before(entries, i, j, otherwise) ==
    \/ QualityOr(entries[i], otherwise) > QualityOr(entries[j], otherwise)
    \/ /\ QualityOr(entries[i], otherwise) = QualityOr(entries[j], otherwise)
       /\ i <= j

Preferred(entries, supported, otherwise) ==
    IF Qualifies(entries, supported) = {} THEN Null
    ELSE EntryRange(entries[CHOOSE i \in Qualifies(entries, supported) :
                               \A j \in Qualifies(entries, supported) :
                                   Before(entries, i, j, otherwise)])

AllQualitiesParse(header) ==
    \A i \in 1..Len(EntriesOf(header)) : QualityParses(EntriesOf(header)[i])

C13_DetectLocaleReturnsPreferredSupported ==
    Detected
        => IF ~Truthy(call.args.acceptLanguage)
           THEN call.result = Null
           ELSE AllQualitiesParse(call.args.acceptLanguage)
                    => call.result = Preferred(EntriesOf(call.args.acceptLanguage),
                                               call.args.supportedLocales, 1000)

C13_Witness ==
    /\ Detected
    /\ call.args.acceptLanguage
           = <<"d", "e", ",", "e", "n", ";", "q", "=", "0", ".", "8", ",",
               "j", "a", ";", "q", "=", "0", ".", "8">>
    /\ call.args.supportedLocales = <<ja, en>>
    /\ call.result = en

(***************************************************************************)
(* C14. In detectLocale an entry whose quality value does not parse as a   *)
(* number is ranked exactly as if its quality were 1.0: it sorts with the  *)
(* entries that carry no quality, never last, and the other entries keep   *)
(* their descending-quality order.                                         *)
(***************************************************************************)
C14_UnparsableQualityRanksAsOne ==
    (Detected /\ Truthy(call.args.acceptLanguage))
        => call.result = Preferred(EntriesOf(call.args.acceptLanguage),
                                   call.args.supportedLocales, 1000)

(***************************************************************************)
(* C15. Idempotence of prefixing: for every path, locale, defaultLocale    *)
(* and prefixDefault, localizing the result of getLocalizedPath again,     *)
(* with the same locale, defaultLocale and prefixDefault, gives the same   *)
(* result.                                                                 *)
(***************************************************************************)
Called(fn) == call.fn = fn /\ call.done

C15_LocalizingTwiceIsLocalizingOnce ==
    Called("getLocalizedPath")
        => getLocalizedPath(call.result, call.args.locale,
                            call.args.defaultLocale, call.args.prefixDefault)
               = call.result

C15_Witness ==
    /\ Called("getLocalizedPath")
    /\ call.args.path = <<"/", "e", "n", "/", "a">>
    /\ call.args.locale = ja
    /\ call.result = <<"/", "j", "a", "/", "e", "n", "/", "a">>
    /\ getLocalizedPath(call.result, ja, call.args.defaultLocale,
                        call.args.prefixDefault) = call.result

(***************************************************************************)
(* C16. Language-switch round trip: for every locale list L, target locale *)
(* loc in L and remainder r, getLocalizedPath(removeLocalePrefix(p, L),    *)
(* loc, def, pd) gives, for every p that is r itself or r under the prefix *)
(* of a locale of L, /{loc}{r} (/{loc} when r is /) if loc differs from    *)
(* def or pd is true, and r otherwise.                                     *)
(***************************************************************************)
\* path is /{locale} or begins with the whole segment /{locale}/
SegmentPrefix(path, locale) ==
    \/ path = <<"/">> \o locale
    \/ /\ Len(path) >= Len(locale) + 2
       /\ SubSeq(path, 1, Len(locale) + 2) = <<"/">> \o locale \o <<"/">>

\* the remainders r of which p is r itself or r under a locale of the list
RemaindersOf(p, localeList) ==
    {p} \cup
    {SubSeq(p, Len(localeList[i]) + 2, Len(p)) :
        i \in {j \in 1..Len(localeList) :
                  /\ SegmentPrefix(p, localeList[j])
                  /\ p # <<"/">> \o localeList[j]}}
    \cup
    {<<"/">> : i \in {j \in 1..Len(localeList) : p = <<"/">> \o localeList[j]}}

\* the canonical form of remainder r for locale loc
Canonical(r, loc, def, pd) ==
    IF loc # def \/ pd = "true"
    THEN (IF r = <<"/">> THEN <<"/">> \o loc ELSE <<"/">> \o loc \o r)
    ELSE r

Unprefixed(r, localeList) ==
    \A i \in 1..Len(localeList) : ~SegmentPrefix(r, localeList[i])

C16_SwitchGivesCanonicalForm ==
    (Called("switchLocale")
        /\ Includes(call.args.locales, call.args.targetLocale))
        => \A r \in RemaindersOf(call.args.currentPath, call.args.locales) :
               call.result = Canonical(r, call.args.targetLocale,
                                       call.args.defaultLocale,
                                       call.args.prefixDefault)

(***************************************************************************)
(* C16, amended: the round trip gives the canonical form for every         *)
(* remainder r that does not itself begin with a locale segment of L.      *)
(***************************************************************************)
C16_SwitchGivesCanonicalFormOfUnprefixed ==
    (Called("switchLocale")
        /\ Includes(call.args.locales, call.args.targetLocale))
        => \A r \in RemaindersOf(call.args.currentPath, call.args.locales) :
               Unprefixed(r, call.args.locales)
                   => call.result = Canonical(r, call.args.targetLocale,
                                              call.args.defaultLocale,
                                              call.args.prefixDefault)

C16_Witness ==
    /\ Called("switchLocale")
    /\ call.args.currentPath = <<"/", "j", "a", "/", "a">>
    /\ call.args.locales = <<en, ja>>
    /\ call.args.targetLocale = en
    /\ call.args.defaultLocale = en
    /\ call.args.prefixDefault = "undefined"
    /\ <<"/", "a">> \in RemaindersOf(call.args.currentPath, call.args.locales)
    /\ call.result = <<"/", "a">>

(***************************************************************************)
(* C17. Segment-boundary matching: hasLocalePrefix(path, locale) is true   *)
(* exactly when path is /{locale} or starts with /{locale}/, and           *)
(* removeLocalePrefix leaves unchanged every path whose first segment      *)
(* merely begins with a locale string (/january with ja).                  *)
(***************************************************************************)
\* the first segment of a path that starts with a slash
FirstSegment(path) ==
    SubSeq(path, 2, IF IndexOf(Tail(path), <<"/">>) = 0 THEN Len(path)
                    ELSE IndexOf(Tail(path), <<"/">>))

\* the first segment begins with a locale of the list and is none of them
MerelyBegins(path, localeList) ==
    /\ StartsWith(path, <<"/">>)
    /\ \E i \in 1..Len(localeList) :
           StartsWith(FirstSegment(path), localeList[i])
    /\ ~Includes(localeList, FirstSegment(path))

C17_MatchesWholeSegmentsOnly ==
    /\ Called("hasLocalePrefix")
           => call.result = SegmentPrefix(call.args.pathname, call.args.locale)
    /\ (Called("removeLocalePrefix")
           /\ MerelyBegins(call.args.pathname, call.args.locales))
           => call.result = call.args.pathname

C17_Witness ==
    /\ Called("removeLocalePrefix")
    /\ call.args.pathname = <<"/", "j", "a", "n", "/", "e", "n">>
    /\ MerelyBegins(call.args.pathname, call.args.locales)
    /\ call.result = call.args.pathname
    /\ ~hasLocalePrefix(call.args.pathname, ja)

(***************************************************************************)
(* C18. getLocalizedPath(path, locale, def, pd) first adds a leading /     *)
(* when missing; it returns that path unchanged when it already is         *)
(* /{locale} or starts with /{locale}/, also when locale is the default;   *)
(* otherwise the path unprefixed when locale is def and pd is false, and   *)
(* else /{locale}{path}, the root / giving /{locale}, never /{locale}/.    *)
(***************************************************************************)
WithLeadingSlash(path) ==
    IF path # <<>> /\ path[1] = "/" THEN path ELSE <<"/">> \o path

LocalizedForm(path, locale, def, pd) ==
    IF SegmentPrefix(path, locale) THEN path
    ELSE IF locale = def /\ pd # "true" THEN path
    ELSE IF path = <<"/">> THEN <<"/">> \o locale
    ELSE <<"/">> \o locale \o path

C18_GetLocalizedPathCases ==
    Called("getLocalizedPath")
        => /\ call.result = LocalizedForm(WithLeadingSlash(call.args.path),
                                          call.args.locale,
                                          call.args.defaultLocale,
                                          call.args.prefixDefault)
           /\ WithLeadingSlash(call.args.path) = <<"/">>
                  => call.result # <<"/">> \o call.args.locale \o <<"/">>

C18_Witness ==
    /\ Called("getLocalizedPath")
    /\ call.args.path = <<>>
    /\ call.args.locale = call.args.defaultLocale
    /\ call.args.prefixDefault = "true"
    /\ call.result = <<"/">> \o call.args.locale

(***************************************************************************)
(* C19. removeLocalePrefix(path, locales) scans locales in order and acts  *)
(* on the first that matches: it returns the remainder beginning with /    *)
(* when path starts with /{locale}/, / when path is /{locale}, and path    *)
(* unchanged when no locale matches; at most one leading locale segment    *)
(* is removed per call.                                                    *)
(***************************************************************************)
Matching(path, localeList) ==
    {i \in 1..Len(localeList) : SegmentPrefix(path, localeList[i])}

FirstMatching(path, localeList) ==
    localeList[CHOOSE i \in Matching(path, localeList) :
                   \A j \in Matching(path, localeList) : i <= j]

\* result is path with exactly the leading /{locale} taken off
TakenOff(path, locale, result) ==
    IF path = <<"/">> \o locale THEN result = <<"/">>
    ELSE /\ StartsWith(result, <<"/">>)
         /\ <<"/">> \o locale \o result = path

C19_RemovesFirstMatchingPrefixOnce ==
    Called("removeLocalePrefix")
        => IF Matching(call.args.pathname, call.args.locales) = {}
           THEN call.result = call.args.pathname
           ELSE TakenOff(call.args.pathname,
                         FirstMatching(call.args.pathname, call.args.locales),
                         call.result)

C19_Witness ==
    /\ Called("removeLocalePrefix")
    /\ call.args.pathname = <<"/", "e", "n", "/", "j", "a">>
    /\ call.args.locales = <<ja, en>>
    /\ call.result = <<"/", "j", "a">>

(***************************************************************************)
(* C20. Missing-key fallback: for every message tree, key and optional     *)
(* namespace, when a segment of the namespace or of the key is absent from *)
(* the tree, or an earlier segment resolves to a non-object, resolveMessage*)
(* returns exactly the full dotted key ({namespace}.{key} with a           *)
(* namespace, key alone without), and after a failed namespace walk the    *)
(* key is not walked.                                                      *)
(***************************************************************************)
\* the node of the tree at the end of the segments, none when a segment is
\* absent from the tree or an earlier one is no object
RECURSIVE NodeAt(_, _)
NodeAt(tree, segments) ==
    IF segments = <<>> THEN tree
    ELSE IF tree.type = "object" /\ segments[1] \in DOMAIN tree.props
    THEN NodeAt(tree.props[segments[1]], Tail(segments))
    ELSE UndefinedValue

SegmentsOf(dotted) == IF Truthy(dotted) THEN Split(dotted, <<".">>) ELSE <<>>

DottedFullKey(key, namespace) ==
    IF Truthy(namespace) THEN namespace \o <<".">> \o key ELSE key

C20_MissingKeyReturnsFullKey ==
    (Called("resolveMessage")
        /\ NodeAt(call.args.messages,
                  SegmentsOf(call.args.namespace) \o SegmentsOf(call.args.key))
               = UndefinedValue)
        => /\ call.result.value
                  = DottedFullKey(call.args.key, call.args.namespace)
           /\ NodeAt(call.args.messages, SegmentsOf(call.args.namespace))
                  = UndefinedValue
                  => ~call.result.keyTraversed

(***************************************************************************)
(* C21. Object-leaf fallback: when the namespace and key walk ends on a    *)
(* subtree, resolveMessage returns the full dotted key; for every input    *)
(* the result is a leaf value of the tree coerced to a string or the full  *)
(* dotted key, and never the stringification "[object Object]".            *)
(***************************************************************************)
\* String() of the leaves of a tree
RECURSIVE LeafTexts(_)
LeafTexts(tree) ==
    IF tree.type = "object"
    THEN UNION {LeafTexts(tree.props[k]) : k \in DOMAIN tree.props}
    ELSE IF tree.type = "undefined" THEN {}
    ELSE {tree.text}

C21_LeafTextOrFullKey ==
    Called("resolveMessage")
        => /\ NodeAt(call.args.messages,
                     SegmentsOf(call.args.namespace) \o SegmentsOf(call.args.key))
                  .type = "object"
                  => call.result.value
                         = DottedFullKey(call.args.key, call.args.namespace)
           /\ call.result.value
                  \in LeafTexts(call.args.messages)
                          \cup {DottedFullKey(call.args.key, call.args.namespace)}
           /\ call.result.value # ObjectObject

(***************************************************************************)
(* C22. getLinkHref without override and without known-locales list: the   *)
(* result is /{currentLocale}{href} (/{currentLocale} for the root href)   *)
(* exactly when currentLocale is defined and the current pathname has      *)
(* currentLocale's prefix; in every other case it is href with only a      *)
(* leading slash added if missing.                                         *)
(***************************************************************************)
Override == call.args.options.locale

KnownLocales == call.args.options.locales

ExplicitOverride == Override \notin {Undefined, <<>>, False}

RawOverride == Override \in {<<>>, False}

\* path under the prefix of locale, the root giving /{locale}
UnderLocale(locale, path) ==
    IF path = <<"/">> THEN <<"/">> \o locale ELSE <<"/">> \o locale \o path

CurrentUrlPrefixed ==
    /\ call.args.currentLocale # Undefined
    /\ SegmentPrefix(call.args.currentPathname, call.args.currentLocale)

C22_AutoDetectFollowsCurrentUrl ==
    (Called("getLinkHref") /\ Override = Undefined /\ KnownLocales = Undefined)
        => call.result =
               IF CurrentUrlPrefixed
               THEN UnderLocale(call.args.currentLocale,
                                WithLeadingSlash(call.args.href))
               ELSE WithLeadingSlash(call.args.href)

C22_Witness ==
    /\ Called("getLinkHref")
    /\ call.args.options = NoOptions
    /\ call.args.currentLocale = ja
    /\ call.args.currentPathname = <<"/", "j", "a", "/", "a">>
    /\ call.args.href = <<"a">>
    /\ call.result = <<"/", "j", "a", "/", "a">>

(***************************************************************************)
(* C23. getLinkHref with a non-empty locale string as override (and no     *)
(* known-locales list): the result is /{override}{href} (/{override} for   *)
(* the root href) whatever the current pathname and the current locale     *)
(* are, and it is the same whether the override is passed as the legacy    *)
(* fourth argument or as options.locale.                                   *)
(***************************************************************************)
C23_ExplicitOverrideAlwaysPrefixes ==
    (Called("getLinkHref") /\ ExplicitOverride /\ KnownLocales = Undefined)
        => /\ call.result = UnderLocale(Override,
                                        WithLeadingSlash(call.args.href))
           /\ getLinkHref(call.args.href, call.args.currentPathname,
                          call.args.currentLocale, LegacyOverride(Override))
                  = call.result
           /\ getLinkHref(call.args.href, call.args.currentPathname,
                          call.args.currentLocale,
                          OptionsObject(Override, Undefined))
                  = call.result

C23_Witness ==
    /\ Called("getLinkHref")
    /\ call.args.options = LegacyOverride(fr)
    /\ call.args.currentLocale = ja
    /\ call.args.currentPathname = <<"/", "j", "a", "/", "a">>
    /\ call.args.href = <<"/">>
    /\ call.result = <<"/", "f", "r">>

(***************************************************************************)
(* C24. getLinkHref raw-path mode: when the override is the empty string   *)
(* or false the href is used as-is, only a missing leading slash added,    *)
(* for every current pathname, current locale and every value of the       *)
(* other options.                                                          *)
(***************************************************************************)
C24_RawPathIsHrefAsIs ==
    (Called("getLinkHref") /\ RawOverride)
        => call.result = WithLeadingSlash(call.args.href)

\* the href with its leading slash, and without the leading prefix of the
\* first listed locale that matches
Normalized(href, localeList) ==
    IF Matching(WithLeadingSlash(href), localeList) = {}
    THEN WithLeadingSlash(href)
    ELSE Stripped(WithLeadingSlash(href),
                  FirstMatching(WithLeadingSlash(href), localeList))

\* C24 with the known-locales list accounted for: in raw-path mode the
\* href is used as-is, only a missing leading slash added, for every
\* current pathname and current locale when no known-locales list is
\* supplied; with a known-locales list the leading prefix of a listed
\* locale is first removed from the href.
C24_RawPathIsHrefAsIsOrNormalized ==
    (Called("getLinkHref") /\ RawOverride)
        => call.result =
               IF KnownLocales = Undefined
               THEN WithLeadingSlash(call.args.href)
               ELSE Normalized(call.args.href, KnownLocales)

C24_Witness ==
    /\ Called("getLinkHref")
    /\ call.args.options = OptionsObject(False, <<ja, en>>)
    /\ call.args.currentLocale = ja
    /\ call.args.currentPathname = <<"/", "j", "a", "/", "a">>
    /\ call.args.href = <<"/", "e", "n", "/", "a">>
    /\ call.result = <<"/", "a">>

(***************************************************************************)
(* C25. getLinkHref normalization: with a known-locales list the leading   *)
(* prefix of a listed locale is removed from the href before the override  *)
(* rules apply, so with an explicit override the result carries the        *)
(* override's prefix and is /{override}{rest} (/{override} when rest is    *)
(* the root), whichever listed locale prefixed the href.                   *)
(***************************************************************************)
C25_NormalizedThenOverridden ==
    (Called("getLinkHref") /\ ExplicitOverride /\ KnownLocales # Undefined)
        => /\ call.result = UnderLocale(Override,
                                        Normalized(call.args.href, KnownLocales))
           /\ SegmentPrefix(call.result, Override)

C25_Witness ==
    /\ Called("getLinkHref")
    /\ call.args.options = OptionsObject(fr, <<ja, en>>)
    /\ call.args.href = <<"/", "j", "a", "/", "a">>
    /\ Matching(call.args.href, KnownLocales) # {}
    /\ call.result = <<"/", "f", "r", "/", "a">>

(***************************************************************************)
(* C26. Prefix detection finds at most one locale: for every list of       *)
(* distinct locale identifiers and every path at most one locale of the    *)
(* list satisfies hasLocalePrefix(path, locale), so the locale the         *)
(* engine's first-match search picks does not depend on the order of the   *)
(* list.                                                                   *)
(***************************************************************************)
\* lists of distinct identifiers, one of them beginning with another
DistinctLocaleLists ==
    {l \in UNION {[1..n -> {ja, en, <<"j", "a", "n">>}] : n \in 1..3} :
        \A i, j \in 1..Len(l) : l[i] = l[j] => i = j}

PrefixedLocales(path, localeList) ==
    {i \in 1..Len(localeList) : hasLocalePrefix(path, localeList[i])}

C26_AtMostOneLocalePrefixes ==
    Called("hasLocalePrefix")
        => \A l \in DistinctLocaleLists :
               /\ Cardinality(PrefixedLocales(call.args.pathname, l)) <= 1
               /\ (call.result /\ Includes(l, call.args.locale))
                      => UrlLocale(l, call.args.pathname) = call.args.locale

C26_Witness ==
    /\ Called("hasLocalePrefix")
    /\ call.result
    /\ call.args.locale = ja
    /\ call.args.pathname = <<"/", "j", "a", "/", "e", "n">>
    /\ UrlLocale(<<en, ja>>, call.args.pathname) = ja
    /\ UrlLocale(<<ja, en>>, call.args.pathname) = ja

(***************************************************************************)
(* C27. No redirect or rewrite loop in standard mode: for every            *)
(* configuration, fallbackLocale a member of locales or not, and every     *)
(* non-excluded request, when the handler answers with a redirect or a     *)
(* rewrite to path T, the handler run again on T continues unmodified.     *)
(***************************************************************************)
\* the response of the handler run again on the path it answered with
Followed ==
    Handle(adapter, config,
           [pathname |-> response.pathname,
            acceptLanguage |-> request.acceptLanguage],
           locals).response

Rerouted ==
    /\ Served
    /\ StandardMode
    /\ ~Excluded(request.pathname)
    /\ response.type \in {"redirect", "rewrite"}

C27_RerouteTargetContinues == Rerouted => Followed = Continue

(***************************************************************************)
(* C28. Prefix then strip is the identity: for every locale list L, locale *)
(* loc in L and path p that starts with / and has no prefix of any locale  *)
(* of L, removeLocalePrefix(getLocalizedPath(p, loc, def, true), L) = p.   *)
(***************************************************************************)
C28_PrefixThenStripIsIdentity ==
    (/\ Called("getLocalizedPath")
     /\ call.args.prefixDefault = "true"
     /\ StartsWith(call.args.path, <<"/">>))
        => \A l \in RouterLocaleLists :
               (Includes(l, call.args.locale) /\ Matching(call.args.path, l) = {})
                   => removeLocalePrefix(call.result, l) = call.args.path

C28_Witness ==
    /\ Called("getLocalizedPath")
    /\ call.args.prefixDefault = "true"
    /\ call.args.locale = call.args.defaultLocale
    /\ call.args.path = <<"/", "j", "a", "n", "/", "a">>
    /\ call.args.locale = en
    /\ Matching(call.args.path, <<ja, en>>) = {}
    /\ call.result = <<"/", "e", "n", "/", "j", "a", "n", "/", "a">>
    /\ removeLocalePrefix(call.result, <<ja, en>>) = call.args.path

(***************************************************************************)
(* C29. A namespace is only a key prefix: for every message tree,          *)
(* non-empty namespace ns and key k, resolveMessage(tree, k, ns) equals    *)
(* resolveMessage(tree, ns.k) without namespace, on success and on every   *)
(* fallback path, and it equals what the single-walk getTranslations       *)
(* returns for the joined key.                                             *)
(***************************************************************************)
JoinedKey == call.args.namespace \o <<".">> \o call.args.key

C29_NamespaceIsKeyPrefix ==
    /\ (Called("resolveMessage") /\ Truthy(call.args.namespace))
           => call.result.value
                  = resolveMessage(call.args.messages, JoinedKey, Undefined).value
    /\ (Called("getTranslations") /\ Truthy(call.args.namespace))
           => /\ call.result
                     = getTranslations(call.args.messages, JoinedKey, Undefined)
              /\ call.result
                     = resolveMessage(call.args.messages, call.args.key,
                                      call.args.namespace).value

(***************************************************************************)
(* C30. The Next.js proxy and the Astro middleware implement the same      *)
(* routing policy: for every configuration with empty excludePaths, every  *)
(* path without static-asset extension, every header and empty initial     *)
(* request metadata, both handlers return the same kind of outcome, the    *)
(* same target path and, in rewrite mode, the same resolved locale         *)
(* (x-locale header versus locals.locale).                                 *)
(***************************************************************************)
OtherAdapter == IF adapter = "astro" THEN "next" ELSE "astro"

\* what the other adapter's handler returns for the same request
OtherResult == Handle(OtherAdapter, config, request, EmptyLocals)

OtherResolvedLocale ==
    IF OtherAdapter = "astro" THEN OtherResult.locals.locale
    ELSE OtherResult.response.xLocale

\* the first invocation for a request both handlers route
RoutedByBoth ==
    /\ Served
    /\ rewrites = 0
    /\ config.excludePaths = <<>>
    /\ ~IsStaticFile(request.pathname)

====
